---- MODULE Spec2Model ----
(***************************************************************************)
(* A model of rs-import (src/src/index.ts): the Bun plugin that compiles   *)
(* Rust sources declared in rsmanifest.json into dynamic libraries, with   *)
(* an on-disk incremental-compilation cache.                               *)
(*                                                                         *)
(* JavaScript strings are sequences of one-character strings, so that the  *)
(* regular expressions and template strings of the source are computed     *)
(* character by character.  The filesystem is a function from absolute     *)
(* paths to nodes.                                                         *)
(***************************************************************************)
EXTENDS Integers, Sequences, FiniteSets, TLC

\* ------------------------------------------------------------------ bounds
\* number of path segments of a source key drawn in SpecResolve
MaxSegs == 2

\* ------------------------------------------------------- string primitives
\* the characters \w matches: [A-Za-z0-9_] (those the model's strings use)
WordChars ==
    {"a","b","c","d","e","f","g","h","i","j","k","l","m","n","o","p","q","r",
     "s","t","u","v","w","x","y","z","C","_","0","1","2","3","4","5","6","7",
     "8","9"}

Slash == <<"/">>
Dot == <<".">>

\* s.endsWith(pat)
endsWith(s, pat) ==
    /\ Len(pat) <= Len(s)
    /\ SubSeq(s, Len(s) - Len(pat) + 1, Len(s)) = pat

\* pat occurs in s at index i (1-based)
MatchAt(s, i, pat) ==
    /\ i >= 1
    /\ i + Len(pat) - 1 <= Len(s)
    /\ SubSeq(s, i, i + Len(pat) - 1) = pat

\* s.indexOf(pat), 1-based; 0 when pat does not occur
IndexOf(s, pat) ==
    LET hits == {i \in 1..Len(s) : MatchAt(s, i, pat)}
    IN  IF hits = {} THEN 0 ELSE CHOOSE i \in hits : \A j \in hits : i <= j

\* s.replace(pat, rep) with a string pattern: the first occurrence only
replace(s, pat, rep) ==
    LET i == IndexOf(s, pat)
    IN  IF i = 0 THEN s
        ELSE SubSeq(s, 1, i - 1) \o rep \o SubSeq(s, i + Len(pat), Len(s))

\* the start of the maximal run of \w characters that ends at index e
\* (e + 1 when s[e] is not a \w character)
RECURSIVE WordRunStart(_, _)
WordRunStart(s, e) ==
    IF e >= 1 /\ e <= Len(s) /\ s[e] \in WordChars
    THEN WordRunStart(s, e - 1)
    ELSE e + 1

\* the index of the last "." of s when everything after it is a non-empty
\* run of \w characters up to the end of s; 0 otherwise    ( \.\w+?$ )
DotBeforeWordTail(s) ==
    LET b == WordRunStart(s, Len(s))
    IN  IF b <= Len(s) /\ b >= 2 /\ s[b - 1] = "." THEN b - 1 ELSE 0

\* ----------------------------------------------------------- the filesystem
\* A node is [kind |-> "file" | "dir", data |-> <<characters>>]; the root
\* directory is the empty path.  Paths are absolute and normalised.
Alphabet ==
    <<"-",".","/","0","1","2","3","4","5","6","7","8","9",";","=","C","_",
      "a","b","c","d","e","f","g","h","i","j","k","l","m","n","o","p","q",
      "r","s","t","u","v","w","x","y","z","[","]",",","\"","{","}",":">>

CharRank(c) == CHOOSE i \in 1..Len(Alphabet) : Alphabet[i] = c

\* process.cwd()
cwd == <<"/","w">>

Dir == [kind |-> "dir", data |-> <<>>]
File(data) == [kind |-> "file", data |-> data]

\* a path as the fs calls see it: relative to cwd, no trailing slash
Norm(p) ==
    LET a == IF Len(p) >= 1 /\ p[1] = "/" THEN p ELSE cwd \o Slash \o p
    IN  IF Len(a) >= 1 /\ a[Len(a)] = "/" THEN SubSeq(a, 1, Len(a) - 1) ELSE a

LastSlash(p) ==
    LET hits == {i \in 1..Len(p) : p[i] = "/"}
    IN  IF hits = {} THEN 0 ELSE CHOOSE i \in hits : \A j \in hits : j <= i

Parent(p) == SubSeq(p, 1, LastSlash(p) - 1)
Basename(p) == SubSeq(p, LastSlash(p) + 1, Len(p))

\* p and every directory above it
AncestorsAndSelf(p) ==
    {SubSeq(p, 1, i - 1) : i \in {j \in 1..Len(p) : p[j] = "/"}} \cup {p}

IsUnder(q, p) == Len(q) > Len(p) /\ SubSeq(q, 1, Len(p) + 1) = p \o Slash

IsFile(f, p) == p \in DOMAIN f /\ f[p].kind = "file"
IsDir(f, p) == p \in DOMAIN f /\ f[p].kind = "dir"

\* fs/promises exists(path)
exists(f, path) == Norm(path) \in DOMAIN f

\* fs/promises mkdir(path, { recursive: true })
MkdirOk(f, path) == \A a \in AncestorsAndSelf(Norm(path)) : a \in DOMAIN f => IsDir(f, a)
mkdir(f, path) ==
    LET new == AncestorsAndSelf(Norm(path)) \ DOMAIN f
    IN  [q \in DOMAIN f \cup new |-> IF q \in new THEN Dir ELSE f[q]]

\* fs/promises writeFile(path, data)
WriteFileOk(f, path) == IsDir(f, Parent(Norm(path))) /\ ~IsDir(f, Norm(path))
writeFile(f, path, data) ==
    [q \in DOMAIN f \cup {Norm(path)} |-> IF q = Norm(path) THEN File(data) ELSE f[q]]

\* fs/promises readFile(path)
ReadFileOk(f, path) == IsFile(f, Norm(path))
readFile(f, path) == f[Norm(path)].data

\* fs/promises rm(path, { force: true }): absence is ignored, a directory
\* is refused (no recursive flag)
RmOk(f, path) == ~IsDir(f, Norm(path))
\* mutant: nothing is removed
rm_nothing(f, path) == f
\* mutant: the hash records are removed with the file
rm_with_records(f, path) ==
    [q \in {n \in DOMAIN f \ {Norm(path)} : ~endsWith(n, <<".","h","a","s","h">>)} |-> f[q]]
rm(f, path) == [q \in DOMAIN f \ {Norm(path)} |-> f[q]]

\* fs/promises rename(from, to)
RenameOk(f, from, to) ==
    /\ Norm(from) \in DOMAIN f
    /\ IsDir(f, Parent(Norm(to)))
    /\ IsFile(f, Norm(from)) => ~IsDir(f, Norm(to))
    /\ IsDir(f, Norm(from)) =>
          /\ ~IsFile(f, Norm(to))
          /\ ~\E q \in DOMAIN f : IsUnder(q, Norm(to))
          /\ ~IsUnder(Norm(to), Norm(from))
rename(f, from, to) ==
    LET a == Norm(from)
        b == Norm(to)
        moved == {q \in DOMAIN f : q = a \/ IsUnder(q, a)}
        Dest(q) == b \o SubSeq(q, Len(a) + 1, Len(q))
        kept == DOMAIN f \ moved
    IN  [q \in kept \cup {Dest(m) : m \in moved} |->
            IF \E m \in moved : Dest(m) = q
            THEN f[CHOOSE m \in moved : Dest(m) = q]
            ELSE f[q]]

\* the order in which readdir reports names: byte order of the names
RECURSIVE LexLess(_, _)
LexLess(a, b) ==
    IF a = <<>> THEN b # <<>>
    ELSE IF b = <<>> THEN FALSE
    ELSE IF a[1] # b[1] THEN CharRank(a[1]) < CharRank(b[1])
    ELSE LexLess(Tail(a), Tail(b))

RECURSIVE Listing(_)
Listing(names) ==
    IF names = {} THEN <<>>
    ELSE LET first == CHOOSE n \in names : \A m \in names \ {n} : LexLess(n, m)
         IN  <<first>> \o Listing(names \ {first})

\* fs/promises readdir(path, { withFileTypes: true }): the entries' names
ReaddirOk(f, path) == IsDir(f, Norm(path))
readdir(f, path) ==
    Listing({Basename(q) : q \in {c \in DOMAIN f : c # <<>> /\ Parent(c) = Norm(path)}})

\* ------------------------------------------------------------ Path Resolver
RsExt == <<".","r","s">>
CargoToml == <<"C","a","r","g","o",".","t","o","m","l">>
\* bun:ffi suffix, the platform's dynamic-library extension
suffix == <<"s","o">>
TypeChars(type) ==
    IF type = "cargo" THEN <<"c","a","r","g","o">> ELSE <<"r","u","s","t","c">>

\* a value that may be undefined / a call that may throw
Some(v) == [ok |-> TRUE, val |-> v]
None == [ok |-> FALSE, val |-> <<>>]

\* /\/Cargo.toml/ at index i: the unescaped "." matches any character
CargoTomlRegexAt(s, i) ==
    /\ MatchAt(s, i, <<"/","C","a","r","g","o">>)
    /\ i + 6 <= Len(s)
    /\ MatchAt(s, i + 7, <<"t","o","m","l">>)

\* s.replaceAll(/(?:\.rs)|(?:\/Cargo.toml)/g, ""), scanning from index i
RECURSIVE StripSuffixesFrom(_, _)
StripSuffixesFrom(s, i) ==
    IF i > Len(s) THEN <<>>
    ELSE IF MatchAt(s, i, RsExt) THEN StripSuffixesFrom(s, i + 3)
    ELSE IF CargoTomlRegexAt(s, i) THEN StripSuffixesFrom(s, i + 11)
    ELSE <<s[i]>> \o StripSuffixesFrom(s, i + 1)

\* the package.name of a parsed Cargo.toml.  A manifest's text is modelled
\* as "n=<name>;<rest>"; a text without the "n=" header declares no name.
TomlPackageName(data) ==
    LET semi == IndexOf(data, <<";">>)
    IN  IF MatchAt(data, 1, <<"n","=">>) /\ semi > 0
        THEN Some(SubSeq(data, 3, semi - 1))
        ELSE None

\* resolve_cargo_name: throws when the import fails or the name is undefined
resolve_cargo_name(f, path) ==
    IF ReadFileOk(f, path) THEN TomlPackageName(readFile(f, path)) ELSE None

\* resolve_rustc_name: path.match(/\w+?(?=\.rs$)/)?.[0]
resolve_rustc_name(path) ==
    LET e == Len(path) - Len(RsExt)
        b == WordRunStart(path, e)
    IN  IF endsWith(path, RsExt) /\ b <= e THEN Some(SubSeq(path, b, e)) ELSE None

import_type(path) == IF endsWith(path, CargoToml) THEN "cargo" ELSE "rustc"

import_slug(root, path) ==
    TypeChars(import_type(path)) \o Slash
        \o StripSuffixesFrom(replace(path, root \o Slash, <<>>), 1)

\* mutant: the hash record is named after the source's content
resolve_import_metadata_by_content(f, root, output_dir, path) ==
    LET type == import_type(path)
        name == IF type = "cargo" THEN resolve_cargo_name(f, path)
                ELSE resolve_rustc_name(path)
        slug == import_slug(root, path)
        text == IF ReadFileOk(f, path) THEN readFile(f, path) ELSE <<>>
    IN  [ok |-> name.ok,
         type |-> type,
         name |-> name.val,
         slug |-> slug,
         path |-> path,
         file_path |-> root \o Slash \o output_dir \o <<"/","l","i","b","s","/">>
                          \o slug \o <<"/","l","i","b">> \o name.val \o Dot \o suffix,
         hash_path |-> root \o Slash \o output_dir \o <<"/","h","a","s","h","/">>
                          \o slug \o Slash \o text \o <<".","h","a","s","h">>]

\* resolve_import_metadata; ok = FALSE when the name resolution throws
resolve_import_metadata(f, root, output_dir, path) ==
    LET type == import_type(path)
        name == IF type = "cargo" THEN resolve_cargo_name(f, path)
                ELSE resolve_rustc_name(path)
        slug == import_slug(root, path)
    IN  [ok |-> name.ok,
         type |-> type,
         name |-> name.val,
         slug |-> slug,
         path |-> path,
         file_path |-> root \o Slash \o output_dir \o <<"/","l","i","b","s","/">>
                          \o slug \o <<"/","l","i","b">> \o name.val \o Dot \o suffix,
         hash_path |-> root \o Slash \o output_dir \o <<"/","h","a","s","h","/">>
                          \o slug \o Slash \o name.val \o <<".","h","a","s","h">>]

\* ------------------------------------------------------- Fingerprint Engine
Digits == <<"0","1","2","3","4","5","6","7","8","9">>

\* Bun.hash(bytes).toString(): a decimal string determined by the content.
\* The hash is taken as injective: two decimal digits per character.
RECURSIVE BunHashString(_)
BunHashString(data) ==
    IF data = <<>> THEN <<"0">>
    ELSE <<Digits[(CharRank(data[1]) \div 10) + 1], Digits[(CharRank(data[1]) % 10) + 1]>>
            \o (IF Len(data) = 1 THEN <<>> ELSE BunHashString(Tail(data)))

\* hash_file: ok = FALSE when it throws (missing, or not readable as a file)
hash_file(f, path) ==
    IF exists(f, path) /\ ReadFileOk(f, path)
    THEN Some(<<BunHashString(readFile(f, path))>>)
    ELSE None

\* hash_directory(path, ignore, recurse): the loop over the entries from
\* index i on.  Sub-calls are made with the default recurse = true.
RECURSIVE hash_entries(_, _, _, _, _, _)
\* mutant: the ignore list is not consulted
hash_directory_ignoring_nothing(f, path, ignore, recurse) ==
    IF ~ReaddirOk(f, path) THEN None
    ELSE hash_entries(f, path, ignore, recurse, readdir(f, path), 1)

\* mutant: the recurse flag is not consulted
hash_directory_always_recursing(f, path, ignore, recurse) ==
    IF path \in ignore THEN Some(<<>>)
    ELSE IF ~ReaddirOk(f, path) THEN None
    ELSE hash_entries(f, path, ignore, TRUE, readdir(f, path), 1)

hash_directory(f, path, ignore, recurse) ==
    IF path \in ignore THEN Some(<<>>)
    ELSE IF ~ReaddirOk(f, path) THEN None
    ELSE hash_entries(f, path, ignore, recurse, readdir(f, path), 1)
hash_entries(f, path, ignore, recurse, folder, i) ==
    IF i > Len(folder) THEN Some(<<>>)
    ELSE LET filepath == path \o Slash \o folder[i]
             here == IF IsFile(f, Norm(filepath)) THEN hash_file(f, filepath)
                     ELSE IF IsDir(f, Norm(filepath)) /\ recurse
                          THEN hash_directory(f, filepath, ignore, TRUE)
                          ELSE Some(<<>>)
             rest == hash_entries(f, path, ignore, recurse, folder, i + 1)
         IN  IF here.ok /\ rest.ok THEN Some(here.val \o rest.val) ELSE None

\* metadata.path.replace(/\/Cargo\.toml$/, "")
cargo_directory(path) ==
    IF endsWith(path, Slash \o CargoToml)
    THEN SubSeq(path, 1, Len(path) - Len(CargoToml) - 1)
    ELSE path

hash_import(f, metadata) ==
    IF metadata.type = "cargo"
    THEN hash_directory(f, cargo_directory(metadata.path),
                        {cargo_directory(metadata.path) \o <<"/","t","a","r","g","e","t">>},
                        TRUE)
    ELSE hash_file(f, metadata.path)

\* JSON.stringify of an array of strings of digits
RECURSIVE JoinQuoted(_)
JoinQuoted(strs) ==
    IF strs = <<>> THEN <<>>
    ELSE <<"\"">> \o strs[1] \o <<"\"">>
            \o (IF Len(strs) = 1 THEN <<>> ELSE <<",">> \o JoinQuoted(Tail(strs)))
JSONStringifyArray(strs) == <<"[">> \o JoinQuoted(strs) \o <<"]">>

\* --------------------------------------------------------------- the driver
VARIABLES
    fs,              \* the filesystem
    rsconfig_json,   \* the parsed rsconfig.json, None when it cannot be imported
    pc,              \* per build process: where setup() is
    config,          \* setup's config
    config_changed,  \* setup's config_changed
    idx,             \* position of the for-in loop in the manifest
    metadata,        \* the current unit's ImportMetadata
    hash,            \* the serialized fingerprint a check compares
    fresh,           \* what the last check returned
    hooks,           \* onResolve/onLoad are registered
    error,           \* the error that ended setup
    trace,           \* history: the calls setup made in this run
    before,          \* history: the record as it was when the running check began
    lastCheck,       \* history: per record path, the check before the current one
    dlopens,         \* history: the calls of dlopen in this process
    lastLoad,        \* history: the outcome of the last onLoad
    treeEdit,        \* history: the last change made to a package's tree
    dirCall          \* history: the last call of hash_directory and its result

envVars == <<fs, rsconfig_json>>
procVars == <<pc, config, config_changed, idx, metadata, hash, fresh, hooks, error>>
histVars == <<trace, before, lastCheck, dlopens, lastLoad, treeEdit, dirCall>>
vars == <<envVars, procVars, histVars>>

\* the build processes; Spec runs process 1, SpecResolve resolves in both
Procs == {1, 2}

\* rsconfig.json contents the project may hold (RSConfig); "unset" is an
\* absent key
EmptyConfig == [always_recompile |-> "unset", rustc_args |-> "unset", cargo_args |-> "unset"]
Configs ==
    {[always_recompile |-> "true", rustc_args |-> "unset", cargo_args |-> "unset"],
     [always_recompile |-> "unset", rustc_args |-> "set", cargo_args |-> "set"]}

\* rsconfig(cwd): the imported JSON, {} when the import throws
rsconfig(json) == IF json.ok THEN json.val ELSE EmptyConfig

\* JSON.stringify(config)
JSONStringifyConfig(c) ==
    LET imp == IF c.always_recompile = "unset" THEN <<>>
               ELSE <<"\"","i","m","p","o","r","t","\"",":","{","\"","a","l","w","a","y","s",
                      "_","r","e","c","o","m","p","i","l","e","\"",":">>
                    \o (IF c.always_recompile = "true" THEN <<"t","r","u","e">>
                        ELSE <<"f","a","l","s","e">>) \o <<"}">>
        bld == IF c.rustc_args = "unset" THEN <<>>
               ELSE <<"\"","b","u","i","l","d","\"",":","{","\"","r","u","s","t","c","_",
                      "a","r","g","s","\"",":","[","\"","-","g","\"","]">>
                    \o (IF c.cargo_args = "unset" THEN <<>>
                        ELSE <<",","\"","c","a","r","g","o","_","a","r","g","s","\"",":",
                               "[","\"","-","q","\"","]">>)
                    \o <<"}">>
    IN  <<"{">> \o imp \o (IF imp # <<>> /\ bld # <<>> THEN <<",">> ELSE <<>>) \o bld \o <<"}">>

\* rsmanifest.json: the declared units in file order, each with its
\* signatures; rsmanifest(cwd, config) returns it
KeyA == <<"a",".","r","s">>
KeyPkg == <<"p","k","g","/">> \o CargoToml
KeyUndeclared == <<"c",".","r","s">>
rsmanifest == <<[key |-> KeyA, data |-> "sigA"], [key |-> KeyPkg, data |-> "sigPkg"]>>

\* manifest[key]: undefined when the key is not declared
manifest_entry(manifest, key) ==
    IF \E i \in 1..Len(manifest) : manifest[i].key = key
    THEN Some((CHOOSE e \in {manifest[i] : i \in 1..Len(manifest)} : e.key = key).data)
    ELSE [ok |-> FALSE, val |-> ""]

\* config.build?.output_dir ?? "build"
output_dir == <<"b","u","i","l","d">>
config_hash_path ==
    output_dir \o <<"/","_","_","r","s","c","o","n","f","i","g",".","h","a","s","h">>
dts_path == cwd \o <<"/","r","s","-","i","m","p","o","r","t",".","d",".","t","s">>
module_definitions == <<"d","t","s">>

\* the source texts an edit may leave at each source path
SourceTexts ==
    (cwd \o Slash \o KeyA :> {<<"0">>, <<"1">>})
    @@ (cwd \o Slash \o KeyPkg :>
            {<<"n","=","m",";">>, <<"n","=","m",";","1">>, <<"n","=","m","-","x",";">>,
             <<"x">>})

NoMetadata ==
    [ok |-> FALSE, type |-> "rustc", name |-> <<>>, slug |-> <<>>, path |-> <<>>,
     file_path |-> <<>>, hash_path |-> <<>>]
NoLoad == [path |-> <<>>, result |-> "none"]
NoEdit == [kind |-> "none", fingerprint |-> None]
NoCall == [any |-> FALSE, path |-> <<>>, ignore |-> {}, recurse |-> FALSE, result |-> None]

\* no build has started: every process is before its call of setup()
NotStarted ==
    /\ rsconfig_json = None
    /\ pc = [p \in Procs |-> "idle"]
    /\ config = [p \in Procs |-> EmptyConfig]
    /\ config_changed = [p \in Procs |-> FALSE]
    /\ idx = [p \in Procs |-> 1]
    /\ metadata = [p \in Procs |-> NoMetadata]
    /\ hash = [p \in Procs |-> <<>>]
    /\ fresh = [p \in Procs |-> FALSE]
    /\ hooks = [p \in Procs |-> FALSE]
    /\ error = [p \in Procs |-> "none"]
    /\ trace = [p \in Procs |-> <<>>]
    /\ before = [p \in Procs |-> None]
    /\ lastCheck = <<>>
    /\ dlopens = [p \in Procs |-> {}]
    /\ lastLoad = [p \in Procs |-> NoLoad]
    /\ treeEdit = NoEdit
    /\ dirCall = NoCall

\* the project before its first build: a.rs and pkg/Cargo.toml
Init ==
    /\ fs = (<<>> :> Dir) @@ (cwd :> Dir) @@ (cwd \o <<"/","p","k","g">> :> Dir)
            @@ (cwd \o Slash \o KeyA :> File(<<"0">>))
            @@ (cwd \o Slash \o KeyPkg :> File(<<"n","=","m",";">>))
    /\ NotStarted

\* ------------------------------------------------------------- Cache Store
\* write_hash's directory: path.replace(/\w+?\.\w+?$/, "")
write_hash_directory(path) ==
    LET d == DotBeforeWordTail(path)
        b == WordRunStart(path, d - 1)
    IN  IF d > 0 /\ b <= d - 1 THEN SubSeq(path, 1, b - 1) ELSE path

\* mutant: the directory is made and the record is never written
write_hash_mkdir_only(f, path, h) == mkdir(f, write_hash_directory(path))

\* write_hash(path, hash): mkdir(directory, recursive) then writeFile
WriteHashOk(f, path) ==
    /\ MkdirOk(f, write_hash_directory(path))
    /\ WriteFileOk(mkdir(f, write_hash_directory(path)), path)
write_hash(f, path, h) == writeFile(mkdir(f, write_hash_directory(path)), path, h)

\* mutant: only the lengths of the two strings are compared
record_differs_by_length(s, h) == Len(s) # Len(h)

\* mutant: every check reports a difference
record_differs_always(s, h) == TRUE

\* saved !== hash
record_differs(s, h) == s # h

\* the record at a path as a check would find it on entry
RecordAt(f, path) == IF ReadFileOk(f, path) THEN Some(readFile(f, path)) ELSE None

\* history: a check of the record at path has returned
NoEntry == [any |-> FALSE, hash |-> <<>>, unseen |-> FALSE]
CheckEntry(h, was) == [any |-> TRUE, hash |-> h, unseen |-> ~was.ok]
PrevCheck(path) == IF path \in DOMAIN lastCheck THEN lastCheck[path] ELSE NoEntry
LogCheck(path, entry) ==
    lastCheck' = [q \in DOMAIN lastCheck \cup {path} |->
                     IF q = path THEN entry ELSE lastCheck[q]]

\* history: the events of a run.  unit is the manifest index (0 for the
\* configuration), ok the outcome; the return of a check also carries the
\* fingerprint it compared and the previous check of the same record
Ev(op, unit, ok) ==
    [op |-> op, unit |-> unit, ok |-> ok, hash |-> <<>>, unseen |-> FALSE, prev |-> NoEntry]
CheckEv(unit, ok, h, was, prev) ==
    [op |-> "check", unit |-> unit, ok |-> ok, hash |-> h, unseen |-> ~was.ok,
     prev |-> prev]
Emit(p, e) == trace' = [trace EXCEPT ![p] = Append(@, e)]
Emit2(p, e1, e2) == trace' = [trace EXCEPT ![p] = Append(Append(@, e1), e2)]

\* mutant: the error is caught and the loop goes on with the next key
ThrowSwallowed(p, why) ==
    /\ pc' = [pc EXCEPT ![p] = "loop"]
    /\ error' = [error EXCEPT ![p] = why]
    /\ idx' = [idx EXCEPT ![p] = @ + 1]

\* an error thrown inside setup: no try/catch surrounds the awaits, so the
\* promise setup returned rejects and nothing after the throw runs
Throw(p, why) ==
    /\ pc' = [pc EXCEPT ![p] = "aborted"]
    /\ error' = [error EXCEPT ![p] = why]
    /\ idx' = idx

\* ------------------------------------------------------- rsimport().setup
\* every build is a new process: setup starts from the files on disk
StartRun(p) ==
    /\ pc[p] = "idle"
    /\ pc' = [pc EXCEPT ![p] = "config_exists"]
    /\ config' = [config EXCEPT ![p] = rsconfig(rsconfig_json)]
    /\ hash' = [hash EXCEPT ![p] = JSONStringifyConfig(rsconfig(rsconfig_json))]
    /\ before' = [before EXCEPT ![p] = RecordAt(fs, config_hash_path)]
    /\ UNCHANGED <<treeEdit, dirCall, envVars, config_changed, idx, metadata, fresh, hooks, error,
                   trace, lastCheck, dlopens, lastLoad>>

\* check_config_hash: if (!await exists(path))
CfgExists(p) ==
    /\ pc[p] = "config_exists"
    /\ pc' = [pc EXCEPT ![p] =
                IF exists(fs, config_hash_path) THEN "config_read" ELSE "config_write"]
    /\ UNCHANGED <<treeEdit, dirCall, envVars, config, config_changed, idx, metadata, hash, fresh,
                   hooks, error, histVars>>

\* check_config_hash: readFile, if (saved !== hash), return true
CfgRead(p) ==
    /\ pc[p] = "config_read"
    /\ IF ~ReadFileOk(fs, config_hash_path)
       THEN /\ Throw(p, "IOError")
            /\ UNCHANGED <<config_changed, fresh, trace, lastCheck>>
       ELSE IF record_differs(readFile(fs, config_hash_path), hash[p])
       THEN /\ pc' = [pc EXCEPT ![p] = "config_write"]
            /\ UNCHANGED <<config_changed, fresh, idx, error, trace, lastCheck>>
       ELSE /\ pc' = [pc EXCEPT ![p] = "write_dts"]
            /\ fresh' = [fresh EXCEPT ![p] = TRUE]
            /\ config_changed' = [config_changed EXCEPT ![p] = FALSE]
            /\ Emit(p, CheckEv(0, TRUE, hash[p], before[p], PrevCheck(Norm(config_hash_path))))
            /\ LogCheck(Norm(config_hash_path), CheckEntry(hash[p], before[p]))
            /\ UNCHANGED <<idx, error>>
    /\ UNCHANGED <<treeEdit, dirCall, envVars, config, metadata, hash, hooks, before, dlopens, lastLoad>>

\* check_config_hash: write_hash, return false
CfgWrite(p) ==
    /\ pc[p] = "config_write"
    /\ IF ~WriteHashOk(fs, config_hash_path)
       THEN /\ Throw(p, "IOError")
            /\ UNCHANGED <<fs, config_changed, fresh, trace, lastCheck>>
       ELSE /\ fs' = write_hash(fs, config_hash_path, hash[p])
            /\ pc' = [pc EXCEPT ![p] = "write_dts"]
            /\ fresh' = [fresh EXCEPT ![p] = FALSE]
            /\ config_changed' = [config_changed EXCEPT ![p] = TRUE]
            /\ Emit2(p, Ev("write", 0, TRUE),
                      CheckEv(0, FALSE, hash[p], before[p], PrevCheck(Norm(config_hash_path))))
            /\ LogCheck(Norm(config_hash_path), CheckEntry(hash[p], before[p]))
            /\ UNCHANGED <<idx, error>>
    /\ UNCHANGED <<treeEdit, dirCall, rsconfig_json, config, metadata, hash, hooks, before, dlopens, lastLoad>>

\* writeFile(`${cwd}/rs-import.d.ts`, module_definitions)
WriteDts(p) ==
    /\ pc[p] = "write_dts"
    /\ IF ~WriteFileOk(fs, dts_path)
       THEN Throw(p, "IOError") /\ UNCHANGED fs
       ELSE /\ fs' = writeFile(fs, dts_path, module_definitions)
            /\ pc' = [pc EXCEPT ![p] = "loop"]
            /\ UNCHANGED <<idx, error>>
    /\ UNCHANGED <<treeEdit, dirCall, rsconfig_json, config, config_changed, metadata, hash, fresh,
                   hooks, histVars>>

\* for (const key in manifest): the next key, or the end of the loop where
\* build.onResolve and build.onLoad are registered
LoopStep(p) ==
    /\ pc[p] = "loop"
    /\ IF idx[p] > Len(rsmanifest)
       THEN /\ pc' = [pc EXCEPT ![p] = "done"]
            /\ hooks' = [hooks EXCEPT ![p] = TRUE]
            /\ Emit(p, Ev("hooks", 0, TRUE))
            /\ UNCHANGED <<metadata, idx, error>>
       ELSE LET path == cwd \o Slash \o rsmanifest[idx[p]].key
                m == resolve_import_metadata(fs, cwd, output_dir, path)
            IN  /\ metadata' = [metadata EXCEPT ![p] = m]
                /\ Emit(p, Ev("resolve", idx[p], m.ok))
                /\ IF m.ok
                   THEN pc' = [pc EXCEPT ![p] = "hash_import"] /\ UNCHANGED <<idx, error>>
                   ELSE Throw(p, "InvalidUnit")
                /\ UNCHANGED hooks
    /\ UNCHANGED <<treeEdit, dirCall, envVars, config, config_changed, hash, fresh, before, lastCheck,
                   dlopens, lastLoad>>

\* check_import_hash: const hash = JSON.stringify(await hash_import(metadata))
HashImport(p) ==
    /\ pc[p] = "hash_import"
    /\ LET h == hash_import(fs, metadata[p])
       IN  /\ Emit(p, Ev("hash", idx[p], h.ok))
           /\ IF h.ok
              THEN /\ hash' = [hash EXCEPT ![p] = JSONStringifyArray(h.val)]
                   /\ before' = [before EXCEPT ![p] = RecordAt(fs, metadata[p].hash_path)]
                   /\ pc' = [pc EXCEPT ![p] = "hash_exists"]
                   /\ UNCHANGED <<idx, error>>
              ELSE Throw(p, "NotFound") /\ UNCHANGED <<hash, before>>
    /\ UNCHANGED <<treeEdit, dirCall, envVars, config, config_changed, metadata, fresh, hooks, lastCheck,
                   dlopens, lastLoad>>

\* check_import_hash: if (!await exists(metadata.hash_path))
HashExists(p) ==
    /\ pc[p] = "hash_exists"
    /\ pc' = [pc EXCEPT ![p] =
                IF exists(fs, metadata[p].hash_path) THEN "hash_read" ELSE "hash_write"]
    /\ UNCHANGED <<treeEdit, dirCall, envVars, config, config_changed, idx, metadata, hash, fresh,
                   hooks, error, histVars>>

\* check_import_hash: readFile, if (saved !== hash), return true
HashRead(p) ==
    /\ pc[p] = "hash_read"
    /\ IF ~ReadFileOk(fs, metadata[p].hash_path)
       THEN /\ Throw(p, "IOError")
            /\ UNCHANGED <<fresh, trace, lastCheck>>
       ELSE IF record_differs(readFile(fs, metadata[p].hash_path), hash[p])
       THEN /\ pc' = [pc EXCEPT ![p] = "hash_write"]
            /\ UNCHANGED <<fresh, idx, error, trace, lastCheck>>
       ELSE /\ pc' = [pc EXCEPT ![p] = "decide"]
            /\ fresh' = [fresh EXCEPT ![p] = TRUE]
            /\ Emit(p, CheckEv(idx[p], TRUE, hash[p], before[p],
                               PrevCheck(Norm(metadata[p].hash_path))))
            /\ LogCheck(Norm(metadata[p].hash_path), CheckEntry(hash[p], before[p]))
            /\ UNCHANGED <<idx, error>>
    /\ UNCHANGED <<treeEdit, dirCall, envVars, config, config_changed, metadata, hash, hooks, before,
                   dlopens, lastLoad>>

\* check_import_hash: write_hash, return false
HashWrite(p) ==
    /\ pc[p] = "hash_write"
    /\ IF ~WriteHashOk(fs, metadata[p].hash_path)
       THEN /\ Throw(p, "IOError")
            /\ UNCHANGED <<fs, fresh, trace, lastCheck>>
       ELSE /\ fs' = write_hash(fs, metadata[p].hash_path, hash[p])
            /\ pc' = [pc EXCEPT ![p] = "decide"]
            /\ fresh' = [fresh EXCEPT ![p] = FALSE]
            /\ Emit2(p, Ev("write", idx[p], TRUE),
                      CheckEv(idx[p], FALSE, hash[p], before[p],
                              PrevCheck(Norm(metadata[p].hash_path))))
            /\ LogCheck(Norm(metadata[p].hash_path), CheckEntry(hash[p], before[p]))
            /\ UNCHANGED <<idx, error>>
    /\ UNCHANGED <<treeEdit, dirCall, rsconfig_json, config, config_changed, metadata, hash, hooks, before,
                   dlopens, lastLoad>>

\* mutant: the configuration trigger is dropped from the condition
should_compile_without_config(isFresh, changed, cfg) ==
    ~isFresh \/ cfg.always_recompile = "true"

\* if (!await check_import_hash(metadata) || config_changed
\*     || config.import?.always_recompile)
should_compile(isFresh, changed, cfg) ==
    ~isFresh \/ changed \/ cfg.always_recompile = "true"

\* mutant: compile_library is called and not awaited
DecideWithoutAwait(p) ==
    /\ pc[p] = "decide"
    /\ pc' = [pc EXCEPT ![p] = "loop"]
    /\ idx' = [idx EXCEPT ![p] = @ + 1]
    /\ Emit(p, Ev(IF should_compile(fresh[p], config_changed[p], config[p])
                  THEN "compile" ELSE "skip", idx[p], TRUE))
    /\ UNCHANGED <<treeEdit, dirCall, envVars, config, config_changed, metadata, hash, fresh, hooks, error,
                   before, lastCheck, dlopens, lastLoad>>

Decide(p) ==
    /\ pc[p] = "decide"
    /\ IF should_compile(fresh[p], config_changed[p], config[p])
       THEN /\ pc' = [pc EXCEPT ![p] = "compile_prepare"]
            /\ Emit(p, Ev("compile", idx[p], TRUE))
            /\ UNCHANGED idx
       ELSE /\ pc' = [pc EXCEPT ![p] = "loop"]
            /\ idx' = [idx EXCEPT ![p] = @ + 1]
            /\ Emit(p, Ev("skip", idx[p], TRUE))
    /\ UNCHANGED <<treeEdit, dirCall, envVars, config, config_changed, metadata, hash, fresh, hooks, error,
                   before, lastCheck, dlopens, lastLoad>>

\* the build process ends (setup rejected, or the bundle is finished)
EndRun(p) ==
    /\ pc[p] \in {"done", "aborted"}
    /\ pc' = [pc EXCEPT ![p] = "idle"]
    /\ config' = [config EXCEPT ![p] = EmptyConfig]
    /\ config_changed' = [config_changed EXCEPT ![p] = FALSE]
    /\ idx' = [idx EXCEPT ![p] = 1]
    /\ metadata' = [metadata EXCEPT ![p] = NoMetadata]
    /\ hash' = [hash EXCEPT ![p] = <<>>]
    /\ fresh' = [fresh EXCEPT ![p] = FALSE]
    /\ hooks' = [hooks EXCEPT ![p] = FALSE]
    /\ error' = [error EXCEPT ![p] = "none"]
    /\ trace' = [trace EXCEPT ![p] = <<>>]
    /\ before' = [before EXCEPT ![p] = None]
    /\ dlopens' = [dlopens EXCEPT ![p] = {}]
    /\ lastLoad' = [lastLoad EXCEPT ![p] = NoLoad]
    /\ UNCHANGED <<treeEdit, dirCall, envVars, lastCheck>>

\* ------------------------------------------------------- Toolchain Invoker
\* metadata.file_path.replace(/\/\w+?\.\w+?$/, "")
compile_directory(file_path) ==
    LET d == DotBeforeWordTail(file_path)
        b == WordRunStart(file_path, d - 1)
    IN  IF d > 0 /\ b <= d - 1 /\ b >= 2 /\ file_path[b - 1] = "/"
        THEN SubSeq(file_path, 1, b - 2)
        ELSE file_path

\* cargo's release output for the package
cargo_release_path(m) ==
    cargo_directory(m.path)
        \o <<"/","t","a","r","g","e","t","/","r","e","l","e","a","s","e","/","l","i","b">>
        \o m.name \o Dot \o suffix

\* ...(config.build?.rustc_args ?? []) / ...(config.build?.cargo_args ?? [])
BuildArgs(m, cfg) ==
    IF m.type = "cargo"
    THEN (IF cfg.cargo_args = "set" THEN <<"-","q">> ELSE <<>>)
    ELSE (IF cfg.rustc_args = "set" THEN <<"-","g">> ELSE <<>>)

\* the library a successful build writes: determined by the sources and
\* the arguments it was built from
BuiltLibrary(f, m, cfg) ==
    [sources |-> IF hash_import(f, m).ok THEN JSONStringifyArray(hash_import(f, m).val)
                 ELSE <<>>,
     args |-> BuildArgs(m, cfg)]

\* compile_library: mkdir(directory, recursive), rm(file_path, force)
CompilePrepare(p) ==
    /\ pc[p] = "compile_prepare"
    /\ LET directory == compile_directory(metadata[p].file_path)
       IN  IF MkdirOk(fs, directory) /\ RmOk(mkdir(fs, directory), metadata[p].file_path)
           THEN /\ fs' = rm(mkdir(fs, directory), metadata[p].file_path)
                /\ pc' = [pc EXCEPT ![p] = "compile_which"]
                /\ Emit(p, Ev("prepare", idx[p], TRUE))
                /\ UNCHANGED <<idx, error>>
           ELSE /\ fs' = IF MkdirOk(fs, directory) THEN mkdir(fs, directory) ELSE fs
                /\ Emit(p, Ev("prepare", idx[p], FALSE))
                /\ Throw(p, "PrepareFailed")
    /\ UNCHANGED <<treeEdit, dirCall, rsconfig_json, config, config_changed, metadata, hash, fresh, hooks,
                   before, lastCheck, dlopens, lastLoad>>

\* compile_library: if (!Bun.which(...)) throw; whether the toolchain is
\* installed is the environment's choice
CompileWhich(p) ==
    /\ pc[p] = "compile_which"
    /\ \E installed \in BOOLEAN :
          /\ Emit(p, Ev("which", idx[p], installed))
          /\ IF installed
             THEN pc' = [pc EXCEPT ![p] = "compile_spawn"] /\ UNCHANGED <<idx, error>>
             ELSE Throw(p, "ToolchainMissing")
    /\ UNCHANGED <<treeEdit, dirCall, envVars, config, config_changed, metadata, hash, fresh, hooks,
                   before, lastCheck, dlopens, lastLoad>>

\* compile_library: await Bun.spawn([...]).exited !== 0.  The exit status is
\* the toolchain's; with status 0 rustc has written the library into
\* --out-dir and cargo into target/release.
CompileSpawn(p) ==
    /\ pc[p] = "compile_spawn"
    /\ \E exited \in {0, 1} :
          /\ Emit(p, Ev("spawn", idx[p], exited = 0))
          /\ IF exited # 0
             THEN Throw(p, "CompilationFailed") /\ UNCHANGED fs
             ELSE LET m == metadata[p]
                      out == IF m.type = "cargo" THEN cargo_release_path(m) ELSE m.file_path
                  IN  /\ fs' = IF MkdirOk(fs, Parent(Norm(out)))
                                  /\ WriteFileOk(mkdir(fs, Parent(Norm(out))), out)
                               THEN writeFile(mkdir(fs, Parent(Norm(out))), out,
                                              BuiltLibrary(fs, m, config[p]))
                               ELSE fs
                      /\ error' = error
                      /\ IF m.type = "cargo"
                         THEN pc' = [pc EXCEPT ![p] = "compile_rename"] /\ UNCHANGED idx
                         ELSE /\ pc' = [pc EXCEPT ![p] = "loop"]
                              /\ idx' = [idx EXCEPT ![p] = @ + 1]
    /\ UNCHANGED <<treeEdit, dirCall, rsconfig_json, config, config_changed, metadata, hash, fresh, hooks,
                   before, lastCheck, dlopens, lastLoad>>

\* compile_library: await rename(file_path, metadata.file_path)
CompileRename(p) ==
    /\ pc[p] = "compile_rename"
    /\ LET from == cargo_release_path(metadata[p])
       IN  IF RenameOk(fs, from, metadata[p].file_path)
           THEN /\ fs' = rename(fs, from, metadata[p].file_path)
                /\ pc' = [pc EXCEPT ![p] = "loop"]
                /\ idx' = [idx EXCEPT ![p] = @ + 1]
                /\ Emit(p, Ev("rename", idx[p], TRUE))
                /\ UNCHANGED error
           ELSE /\ Emit(p, Ev("rename", idx[p], FALSE))
                /\ Throw(p, "RenameFailed")
                /\ UNCHANGED fs
    /\ UNCHANGED <<treeEdit, dirCall, rsconfig_json, config, config_changed, metadata, hash, fresh, hooks,
                   before, lastCheck, dlopens, lastLoad>>

\* ------------------------------------------------------------- Unit Loader
\* mutant: a missing entry loads the library with no symbols
import_library_without_entry(root, manifest, m) ==
    LET key == replace(m.path, root \o Slash, <<>>)
        data == manifest_entry(manifest, key)
    IN  [result |-> "dlopen", file_path |-> m.file_path, data |-> data.val]

\* import_library: the key, the manifest entry, the throw or the dlopen
import_library(root, manifest, m) ==
    LET key == replace(m.path, root \o Slash, <<>>)
        data == manifest_entry(manifest, key)
    IN  IF ~data.ok
        THEN [result |-> "MissingManifestEntry", file_path |-> <<>>, data |-> ""]
        ELSE [result |-> "dlopen", file_path |-> m.file_path, data |-> data.val]

\* the paths the bundler may hand to onLoad
LoadPaths == {cwd \o Slash \o k : k \in {KeyA, KeyPkg, KeyUndeclared}}

\* build.onLoad's callback
OnLoad(p) ==
    /\ pc[p] = "done"
    /\ hooks[p]
    /\ \E path \in LoadPaths :
          LET m == resolve_import_metadata(fs, cwd, output_dir, path)
              lib == import_library(cwd, rsmanifest, m)
          IN  IF ~m.ok
              THEN /\ lastLoad' = [lastLoad EXCEPT ![p] =
                                     [path |-> path, result |-> "InvalidUnit"]]
                   /\ UNCHANGED dlopens
              ELSE /\ lastLoad' = [lastLoad EXCEPT ![p] =
                                     [path |-> path, result |-> lib.result]]
                   /\ dlopens' = [dlopens EXCEPT ![p] =
                                    IF lib.result = "dlopen"
                                    THEN @ \cup {[file_path |-> lib.file_path,
                                                  data |-> lib.data]}
                                    ELSE @]
    /\ UNCHANGED <<treeEdit, dirCall, envVars, procVars, trace, before, lastCheck>>

\* ---------------------------------------------------------- the environment
\* between builds the developer edits a source file or rsconfig.json
Quiet == \A p \in Procs : pc[p] = "idle"

EditSource ==
    /\ Quiet
    /\ \E path \in DOMAIN SourceTexts : \E text \in SourceTexts[path] :
          /\ IsFile(fs, path)
          /\ fs[path].data # text
          /\ fs' = writeFile(fs, path, text)
    /\ UNCHANGED <<rsconfig_json, procVars, histVars>>

EditConfig ==
    /\ Quiet
    /\ \E c \in {None} \cup {Some(v) : v \in Configs} :
          /\ c # rsconfig_json
          /\ rsconfig_json' = c
    /\ UNCHANGED <<fs, procVars, histVars>>

\* the awaited steps of one call of setup
Setup(p) ==
    \/ StartRun(p)
    \/ CfgExists(p)
    \/ CfgRead(p)
    \/ CfgWrite(p)
    \/ WriteDts(p)
    \/ LoopStep(p)
    \/ HashImport(p)
    \/ HashExists(p)
    \/ HashRead(p)
    \/ HashWrite(p)
    \/ Decide(p)
    \/ CompilePrepare(p)
    \/ CompileWhich(p)
    \/ CompileSpawn(p)
    \/ CompileRename(p)

Build(p) == Setup(p) \/ OnLoad(p) \/ EndRun(p)

Next == Build(1) \/ EditSource \/ EditConfig

Spec == Init /\ [][Next]_vars

\* ------------------------------------------------------ two builds at once
\* Two build processes of the same project run setup concurrently: their
\* awaited steps interleave in any order.  Both processes end before the
\* sources are edited and the next two builds start.
EndBoth ==
    /\ \A p \in Procs : pc[p] \in {"done", "aborted"}
    /\ pc' = [p \in Procs |-> "idle"]
    /\ config' = [p \in Procs |-> EmptyConfig]
    /\ config_changed' = [p \in Procs |-> FALSE]
    /\ idx' = [p \in Procs |-> 1]
    /\ metadata' = [p \in Procs |-> NoMetadata]
    /\ hash' = [p \in Procs |-> <<>>]
    /\ fresh' = [p \in Procs |-> FALSE]
    /\ hooks' = [p \in Procs |-> FALSE]
    /\ error' = [p \in Procs |-> "none"]
    /\ trace' = [p \in Procs |-> <<>>]
    /\ before' = [p \in Procs |-> None]
    /\ UNCHANGED <<envVars, lastCheck, dlopens, lastLoad, treeEdit, dirCall>>

\* between two pairs of builds a source is edited; the manifest keeps its
\* package name
EditBetween ==
    /\ Quiet
    /\ \E path \in DOMAIN SourceTexts :
          \E text \in {t \in SourceTexts[path] : TomlPackageName(t) = TomlPackageName(fs[path].data)} :
             /\ fs[path].data # text
             /\ fs' = writeFile(fs, path, text)
    /\ UNCHANGED <<rsconfig_json, procVars, histVars>>

NextConcurrent == Setup(1) \/ Setup(2) \/ EndBoth \/ EditBetween

SpecConcurrent == Init /\ [][NextConcurrent]_vars

\* ----------------------------------------------- resolving arbitrary units
\* The source paths a project may declare or import: at most MaxSegs
\* segments, directories named a and a.rs, and in each directory a source
\* file b.rs and a manifest Cargo.toml.
DirSegs == {<<"a">>, <<"a",".","r","s">>}
LeafSegs == {<<"b",".","r","s">>, CargoToml}
RECURSIVE RelPaths(_)
RelPaths(n) ==
    IF n <= 1 THEN LeafSegs
    ELSE LeafSegs \cup {d \o Slash \o r : d \in DirSegs, r \in RelPaths(n - 1)}
ResolveKeys == RelPaths(MaxSegs)

\* what the files may hold: two texts declaring package m, one declaring
\* package x, one that declares no package name
FileTexts ==
    {<<"n","=","m",";">>, <<"n","=","m",";","1">>, <<"n","=","x",";">>, <<"x">>}

\* the project with every source path present and every file holding text
ProjectWith(text) ==
    LET files == {cwd \o Slash \o k : k \in ResolveKeys}
        nodes == UNION {AncestorsAndSelf(q) : q \in files}
    IN  [q \in nodes |-> IF q \in files THEN File(text) ELSE Dir]

InitResolve ==
    /\ \E text \in FileTexts : fs = ProjectWith(text)
    /\ NotStarted

\* const metadata = await resolve_import_metadata(cwd, output_dir,
\* `${cwd}/${key}`) for a key out of keys; a throw leaves the process idle
ResolveUnit(p, keys) ==
    /\ pc[p] = "idle"
    /\ \E key \in keys :
          LET m == resolve_import_metadata(fs, cwd, output_dir, cwd \o Slash \o key)
          IN  /\ metadata' = [metadata EXCEPT ![p] = m]
              /\ pc' = [pc EXCEPT ![p] = IF m.ok THEN "hash_import" ELSE "idle"]
    /\ hash' = [hash EXCEPT ![p] = <<>>]
    /\ UNCHANGED <<envVars, config, config_changed, idx, fresh, hooks, error, histVars>>

\* the fingerprint the check then takes of the resolved unit
FingerprintUnit(p) ==
    /\ pc[p] = "hash_import"
    /\ LET h == hash_import(fs, metadata[p])
       IN  hash' = [hash EXCEPT ![p] = IF h.ok THEN JSONStringifyArray(h.val) ELSE <<>>]
    /\ pc' = [pc EXCEPT ![p] = "idle"]
    /\ UNCHANGED <<envVars, config, config_changed, idx, metadata, fresh, hooks, error,
                   histVars>>

\* the developer rewrites the files: only their contents change
RewriteFiles ==
    /\ Quiet
    /\ \E text \in FileTexts :
          /\ fs # ProjectWith(text)
          /\ fs' = ProjectWith(text)
    /\ UNCHANGED <<rsconfig_json, procVars, histVars>>

Resolve(p) == ResolveUnit(p, ResolveKeys) \/ FingerprintUnit(p)

NextResolve == Resolve(1) \/ Resolve(2) \/ RewriteFiles

SpecResolve == InitResolve /\ [][NextResolve]_vars

\* ------------------------------------------------------- a package's tree
\* The package of pkg/Cargo.toml: tracked files, one of them in a nested
\* directory that is also named target, and build output under pkg/target.
PkgDir == cwd \o <<"/","p","k","g">>
PkgUnit == [NoMetadata EXCEPT !.type = "cargo", !.path = cwd \o Slash \o KeyPkg]
PkgSource == PkgDir \o <<"/","s","r","c","/","l",".","r","s">>
PkgNested == PkgDir \o <<"/","s","r","c","/","t","a","r","g","e","t","/","t">>
PkgTarget == PkgDir \o <<"/","t","a","r","g","e","t">>
TrackedTexts ==
    (cwd \o Slash \o KeyPkg :> {<<"n","=","m",";">>, <<"n","=","m",";","1">>})
    @@ (PkgSource :> {<<"0">>, <<"1">>})
    @@ (PkgNested :> {<<"0">>, <<"1">>})
ExcludedTexts ==
    (PkgTarget \o <<"/","o">> :> {<<"0">>, <<"1">>})
    @@ (PkgTarget \o <<"/","d","/","o">> :> {<<"0">>, <<"1">>})
ExcludedNodes == DOMAIN ExcludedTexts \cup {PkgTarget \o <<"/","d">>}
TreeStart ==
    (cwd \o Slash \o KeyPkg :> <<"n","=","m",";">>)
    @@ (PkgSource :> <<"0">>) @@ (PkgNested :> <<"0">>)

\* the fingerprint hash_import returns for the package in filesystem f
TreeFingerprint(f) == hash_import(f, PkgUnit)

InitTree ==
    /\ fs = [q \in UNION {AncestorsAndSelf(t) : t \in DOMAIN TreeStart \cup {PkgTarget}} |->
                IF q \in DOMAIN TreeStart THEN File(TreeStart[q]) ELSE Dir]
    /\ NotStarted

\* the content of a tracked file changes
EditTracked ==
    /\ Quiet
    /\ \E q \in DOMAIN TrackedTexts : \E text \in TrackedTexts[q] :
          /\ IsFile(fs, q)
          /\ fs[q].data # text
          /\ fs' = writeFile(fs, q, text)
    /\ treeEdit' = [kind |-> "tracked", fingerprint |-> TreeFingerprint(fs)]
    /\ UNCHANGED <<rsconfig_json, procVars, trace, before, lastCheck, dlopens, lastLoad, dirCall>>

\* a file under pkg/target is added or its content changes
WriteExcluded ==
    /\ Quiet
    /\ \E q \in DOMAIN ExcludedTexts : \E text \in ExcludedTexts[q] :
          /\ IF IsFile(fs, q) THEN fs[q].data # text ELSE TRUE
          /\ fs' = writeFile(mkdir(fs, Parent(q)), q, text)
          /\ treeEdit' = [kind |-> IF IsFile(fs, q) THEN "excluded changed" ELSE "excluded added",
                          fingerprint |-> TreeFingerprint(fs)]
    /\ UNCHANGED <<rsconfig_json, procVars, trace, before, lastCheck, dlopens, lastLoad, dirCall>>

\* a file or a directory under pkg/target is removed
RemoveExcluded ==
    /\ Quiet
    /\ \E q \in ExcludedNodes :
          /\ q \in DOMAIN fs
          /\ fs' = [r \in {n \in DOMAIN fs : n # q /\ ~IsUnder(n, q)} |-> fs[r]]
    /\ treeEdit' = [kind |-> "excluded removed", fingerprint |-> TreeFingerprint(fs)]
    /\ UNCHANGED <<rsconfig_json, procVars, trace, before, lastCheck, dlopens, lastLoad, dirCall>>

NextTree ==
    \/ ResolveUnit(1, {KeyPkg})
    \/ FingerprintUnit(1)
    \/ EditTracked
    \/ WriteExcluded
    \/ RemoveExcluded

SpecTree == InitTree /\ [][NextTree]_vars

\* --------------------------------------------- hash_directory, any call
\* The package's tree with its files present or not, and hash_directory
\* called on any of its directories with any ignore list and either flag.
PkgSrc == PkgDir \o <<"/","s","r","c">>
ChangedFiles == (DOMAIN TrackedTexts \ {cwd \o Slash \o KeyPkg}) \cup DOMAIN ExcludedTexts

\* a file of the tree is written or removed
ChangeTree ==
    /\ \E q \in ChangedFiles :
          \/ /\ IsFile(fs, q)
             /\ fs' = rm(fs, q)
          \/ \E text \in (TrackedTexts @@ ExcludedTexts)[q] :
                /\ IF IsFile(fs, q) THEN fs[q].data # text ELSE TRUE
                /\ fs' = writeFile(mkdir(fs, Parent(q)), q, text)
    /\ dirCall' = NoCall
    /\ UNCHANGED <<rsconfig_json, procVars, trace, before, lastCheck, dlopens, lastLoad,
                   treeEdit>>

\* await hash_directory(path, ignore, recurse)
CallHashDirectory ==
    /\ \E path \in {PkgDir, PkgSrc, Parent(PkgNested), PkgTarget} :
       \E ignore \in SUBSET {PkgTarget, Parent(PkgNested)} : \E recurse \in BOOLEAN :
          dirCall' = [any |-> TRUE, path |-> path, ignore |-> ignore, recurse |-> recurse,
                      result |-> hash_directory(fs, path, ignore, recurse)]
    /\ UNCHANGED <<envVars, procVars, trace, before, lastCheck, dlopens, lastLoad, treeEdit>>

NextDirectory == ChangeTree \/ CallHashDirectory

SpecDirectory == InitTree /\ [][NextDirectory]_vars

\* ------------------------------------------------- reading a run's history
Units == 1..Len(rsmanifest)
Happened(p, op, u) == \E i \in 1..Len(trace[p]) : trace[p][i].op = op /\ trace[p][i].unit = u
HappenedWith(p, op, u, ok) ==
    \E i \in 1..Len(trace[p]) :
        trace[p][i].op = op /\ trace[p][i].unit = u /\ trace[p][i].ok = ok
\* the return events of the checks of unit u (0: the configuration) in this run
Checks(p, u) ==
    {trace[p][i] : i \in {j \in 1..Len(trace[p]) :
                            trace[p][j].op = "check" /\ trace[p][j].unit = u}}
ReportedFresh(p, u) == HappenedWith(p, "check", u, TRUE)
ReportedStale(p, u) == HappenedWith(p, "check", u, FALSE)
Invoked(p, u) == Happened(p, "compile", u)
Skipped(p, u) == Happened(p, "skip", u)
Decided(p, u) == Invoked(p, u) \/ Skipped(p, u)
\* what is on disk for the project, not what setup loaded
AlwaysRecompile == rsconfig(rsconfig_json).always_recompile = "true"
UnitMetadata(u) ==
    resolve_import_metadata(fs, cwd, output_dir, cwd \o Slash \o rsmanifest[u].key)

\* ------------------------------------------------------------------ claims
\* C1: for every unit the setup loop has processed, compile_library was
\* invoked exactly when check_import_hash reported it not fresh, or the
\* configuration was reported changed in this run, or always_recompile is
\* set; with none of the three the compiler is not invoked for the unit.
C1_CompileExactlyWhenTriggered ==
    \A p \in Procs : \A u \in Units :
        /\ Decided(p, u) =>
              (Invoked(p, u) <=>
                  (ReportedStale(p, u) \/ ReportedStale(p, 0) \/ AlwaysRecompile))
        /\ Decided(p, u) => (ReportedStale(p, u) \/ ReportedFresh(p, u))
        /\ ~(Invoked(p, u) /\ Skipped(p, u))

\* a finished run that compiled its first unit because it was stale and
\* skipped its second because none of the three triggers held
C1_Witness ==
    /\ pc[1] = "done"
    /\ Invoked(1, 1) /\ ReportedStale(1, 1)
    /\ Skipped(1, 2) /\ ReportedFresh(1, 2)
    /\ ReportedFresh(1, 0) /\ ~AlwaysRecompile

\* the fingerprints as the files on disk give them
UnitFingerprint(u) == JSONStringifyArray(hash_import(fs, UnitMetadata(u)).val)
ConfigFingerprint == JSONStringifyConfig(rsconfig(rsconfig_json))

\* what a check that has just returned must have done: path is the record,
\* h the current fingerprint, u the unit (0: the configuration)
CheckContract(p, u, path, h) ==
    /\ RecordAt(fs, path) = Some(h)
    /\ fresh[p] <=> (before[p] = Some(h))
    /\ ~fresh[p] <=> (~before[p].ok \/ before[p].val # h)
    /\ Happened(p, "write", u) <=> ~fresh[p]
    /\ trace[p][Len(trace[p])].op = "check"
    /\ trace[p][Len(trace[p])].ok = fresh[p]

\* C2: when check_import_hash or check_config_hash returns, it has written
\* the current fingerprint and returned false if the record was absent or
\* different, it has returned true without writing if the record was equal,
\* and the record's content equals the current fingerprint.
C2_CheckAndWrite ==
    \A p \in Procs :
        /\ pc[p] = "decide" =>
              CheckContract(p, idx[p], UnitMetadata(idx[p]).hash_path,
                            UnitFingerprint(idx[p]))
        /\ pc[p] = "write_dts" =>
              CheckContract(p, 0, config_hash_path, ConfigFingerprint)

\* the second unit's check has just returned fresh without a write, after
\* the first unit's check found a differing record and rewrote it
C2_Witness ==
    /\ pc[1] = "decide" /\ idx[1] = 2
    /\ fresh[1] /\ ~Happened(1, "write", 2)
    /\ \E e \in Checks(1, 1) : ~e.ok /\ ~e.unseen
    /\ Happened(1, "write", 1)

C4_SingleFileRuns ==
    \A p \in Procs : \A u \in Units :
        UnitMetadata(u).type = "rustc" =>
            \A e \in Checks(p, u) :
                /\ ~e.prev.any =>
                      /\ ~e.ok
                      /\ Decided(p, u) => Invoked(p, u)
                      /\ HappenedWith(p, "spawn", u, TRUE) =>
                            /\ IsFile(fs, Norm(UnitMetadata(u).file_path))
                            /\ IsFile(fs, Norm(UnitMetadata(u).hash_path))
                /\ (e.prev.any /\ e.prev.hash = e.hash) =>
                      /\ e.ok
                      /\ (ReportedFresh(p, 0) /\ ~AlwaysRecompile /\ Decided(p, u)) =>
                            (Skipped(p, u) /\ ~Happened(p, "spawn", u))
                /\ (e.prev.any /\ e.prev.hash # e.hash) =>
                      /\ ~e.ok
                      /\ Decided(p, u) => Invoked(p, u)

\* the third run of the scenario: the record had been written and found
\* again, the file was then edited, and this run recompiled it
C4_Witness ==
    /\ pc[1] = "done"
    /\ ReportedFresh(1, 0) /\ ~AlwaysRecompile
    /\ \E e \in Checks(1, 1) :
          e.prev.any /\ ~e.prev.unseen /\ e.prev.hash # e.hash /\ ~e.ok
    /\ HappenedWith(1, "spawn", 1, TRUE)
    /\ IsFile(fs, Norm(UnitMetadata(1).file_path))

\* C5: when compile_library fails for a unit, setup is over: the toolchain
\* was spawned at most once for the unit, nothing was done for any later
\* unit, the hooks are not registered and dlopen is never called.
CompileErrors == {"PrepareFailed", "ToolchainMissing", "CompilationFailed", "RenameFailed"}
CompileSteps == {"prepare", "which", "spawn", "rename"}
C5_CompileFailureAborts ==
    \A p \in Procs :
        /\ \A i \in 1..Len(trace[p]) :
              (trace[p][i].op \in CompileSteps /\ ~trace[p][i].ok) =>
                  /\ i = Len(trace[p])
                  /\ pc[p] = "aborted"
                  /\ error[p] \in CompileErrors
        /\ (pc[p] = "aborted" /\ error[p] \in CompileErrors) =>
              /\ Cardinality({i \in 1..Len(trace[p]) :
                                 trace[p][i].op = "spawn" /\ trace[p][i].unit = idx[p]}) <= 1
              /\ \A i \in 1..Len(trace[p]) : trace[p][i].unit <= idx[p]
              /\ ~hooks[p]
              /\ ~Happened(p, "hooks", 0)
              /\ dlopens[p] = {}
              /\ lastLoad[p] = NoLoad

\* the compiler exited non-zero for the first unit while a second is declared
C5_Witness ==
    /\ pc[1] = "aborted"
    /\ error[1] = "CompilationFailed"
    /\ idx[1] = 1
    /\ HappenedWith(1, "spawn", 1, FALSE)

\* C9: a check of a record path that did not exist returns false; the next
\* check of that path with the same fingerprint returns true and writes
\* nothing.
C9_SecondCheckIsFresh ==
    \A p \in Procs : \A u \in {0} \cup Units :
        \A e \in Checks(p, u) :
            /\ e.unseen => ~e.ok
            /\ (e.prev.any /\ e.prev.unseen /\ e.prev.hash = e.hash) =>
                  /\ e.ok
                  /\ ~Happened(p, "write", u)

\* a unit check and a configuration check that follow a first check of an
\* unseen path with the same fingerprint
C9_Witness ==
    /\ \E e \in Checks(1, 1) : e.prev.any /\ e.prev.unseen /\ e.prev.hash = e.hash /\ e.ok
    /\ \E e \in Checks(1, 0) : e.prev.any /\ e.prev.unseen /\ e.prev.hash = e.hash /\ e.ok

\* C10: import_library for a path whose key has no manifest entry fails
\* with the missing-entry error and does not call dlopen; every dlopen call
\* was made with a declared unit's signatures and that unit's artifact path.
DeclaredKeys == {rsmanifest[u].key : u \in Units}
KeyOf(path) == replace(path, cwd \o Slash, <<>>)
C10_MissingEntryNeverLoads ==
    \A p \in Procs :
        /\ (lastLoad[p].result # "none"
              /\ resolve_import_metadata(fs, cwd, output_dir, lastLoad[p].path).ok
              /\ KeyOf(lastLoad[p].path) \notin DeclaredKeys) =>
                  lastLoad[p].result = "MissingManifestEntry"
        /\ lastLoad[p].result = "dlopen" => KeyOf(lastLoad[p].path) \in DeclaredKeys
        /\ \A d \in dlopens[p] :
              \E u \in Units :
                  /\ d.data = rsmanifest[u].data
                  /\ d.file_path = UnitMetadata(u).file_path

\* a load of an undeclared source failed after a declared one was loaded
C10_Witness ==
    /\ lastLoad[1].path = cwd \o Slash \o KeyUndeclared
    /\ lastLoad[1].result = "MissingManifestEntry"
    /\ dlopens[1] # {}

\* the process holds a resolved unit; the fingerprint of it has been taken
Resolved(p) == metadata[p].ok /\ metadata[p].path # <<>>
Fingerprinted(p) == Resolved(p) /\ pc[p] = "idle" /\ hash[p] # <<>>
DirectoryOf(path) == Parent(path)

\* C6: two distinct source paths never resolve to the same slug, and the
\* same path always resolves to the same slug.
C6_DistinctPathsDistinctSlugs ==
    \A p, q \in Procs :
        (Resolved(p) /\ Resolved(q)) =>
            /\ metadata[p].path # metadata[q].path => metadata[p].slug # metadata[q].slug
            /\ metadata[p].path = metadata[q].path => metadata[p].slug = metadata[q].slug

\* two different source files resolved to one slug, one artifact and one
\* hash record
C6_Witness ==
    /\ Resolved(1) /\ Resolved(2)
    /\ metadata[1].path # metadata[2].path
    /\ metadata[1].slug = metadata[2].slug
    /\ metadata[1].file_path = metadata[2].file_path
    /\ metadata[1].hash_path = metadata[2].hash_path

\* C7 as claimed: a source path resolved in two filesystem states that
\* differ only in file contents gets the same file_path and hash_path, for
\* both kinds of unit.
C7_PathsIgnoreContents ==
    \A p, q \in Procs :
        (Resolved(p) /\ Resolved(q) /\ metadata[p].path = metadata[q].path) =>
            /\ metadata[p].file_path = metadata[q].file_path
            /\ metadata[p].hash_path = metadata[q].hash_path

\* C7 amended: a source path resolved in two filesystem states that differ
\* only in file contents gets the same slug and the same artifact and
\* hash-record directories; a single-file unit gets the same file_path and
\* hash_path, and a package unit gets them whenever its manifest declares
\* the same package name in both states.
C7_PathsDependOnlyOnPackageName ==
    \A p, q \in Procs :
        (Resolved(p) /\ Resolved(q) /\ metadata[p].path = metadata[q].path) =>
            /\ metadata[p].slug = metadata[q].slug
            /\ DirectoryOf(metadata[p].file_path) = DirectoryOf(metadata[q].file_path)
            /\ DirectoryOf(metadata[p].hash_path) = DirectoryOf(metadata[q].hash_path)
            /\ (metadata[p].type = "rustc" \/ metadata[p].name = metadata[q].name) =>
                  /\ metadata[p].file_path = metadata[q].file_path
                  /\ metadata[p].hash_path = metadata[q].hash_path

\* a manifest resolved twice, its text different and its package name the
\* same, with the same two paths
C7_Witness ==
    /\ Fingerprinted(1) /\ Fingerprinted(2)
    /\ metadata[1].type = "cargo"
    /\ metadata[1].path = metadata[2].path
    /\ hash[1] # hash[2]
    /\ metadata[1].name = metadata[2].name
    /\ metadata[1].hash_path = metadata[2].hash_path

\* C8: a change of a tracked file's content changes the package's
\* fingerprint; a change, an addition or a removal under the excluded
\* pkg/target leaves it as it was.
C8_TrackedAndExcluded ==
    /\ treeEdit.kind = "tracked" =>
          /\ TreeFingerprint(fs).ok /\ treeEdit.fingerprint.ok
          /\ TreeFingerprint(fs).val # treeEdit.fingerprint.val
    /\ treeEdit.kind \in {"excluded changed", "excluded added", "excluded removed"} =>
          TreeFingerprint(fs) = treeEdit.fingerprint

\* since process 1 took the fingerprint the tracked file in src/target was
\* edited, which changed the fingerprint, and then build output was removed
C8_Witness ==
    /\ treeEdit.kind = "excluded removed"
    /\ Fingerprinted(1)
    /\ TreeFingerprint(fs).ok
    /\ hash[1] # JSONStringifyArray(TreeFingerprint(fs).val)
    /\ fs[PkgNested].data = <<"1">>
    /\ ~exists(fs, PkgTarget \o <<"/","d">>)

\* the artifact of unit u is in place
ArtifactExists(u) == UnitMetadata(u).ok /\ IsFile(fs, Norm(UnitMetadata(u).file_path))

\* C11: a unit is never skipped as fresh while no artifact exists at its
\* artifact path; after a failed compile the next run with the same source
\* and configuration compiles the unit again.
C11_NeverSkippedWithoutArtifact ==
    \A p \in Procs : \A u \in Units :
        Skipped(p, u) => ArtifactExists(u)

\* the run after a failed compile: the record written before the compile
\* makes the check report fresh, the unit is skipped and has no artifact
C11_Witness ==
    /\ pc[1] = "done"
    /\ ReportedFresh(1, 0) /\ ~AlwaysRecompile
    /\ ReportedFresh(1, 1) /\ Skipped(1, 1)
    /\ \E e \in Checks(1, 1) : e.prev.any /\ e.prev.hash = e.hash
    /\ ~ArtifactExists(1)

\* the artifact of unit u is the one a build with configuration cfg makes
BuiltUnder(u, cfg) ==
    fs[Norm(UnitMetadata(u).file_path)].data.args = BuildArgs(UnitMetadata(u), cfg)

\* C12: after the configuration changes no unit is skipped as fresh while
\* its artifact is the one built under the previous configuration: a unit
\* that an aborted run did not reach is rebuilt under the new configuration
\* before it is treated as fresh.
C12_NeverSkippedWithOldConfiguration ==
    \A p \in Procs : \A u \in Units :
        (Skipped(p, u) /\ ArtifactExists(u)) => BuiltUnder(u, config[p])

\* the run after one that saw the new configuration and aborted at the
\* first unit: the configuration is reported unchanged and the package,
\* built under the previous configuration, is skipped
C12_Witness ==
    /\ pc[1] = "done"
    /\ ReportedFresh(1, 0)
    /\ Skipped(1, 2) /\ ArtifactExists(2)
    /\ config[1].cargo_args = "set"
    /\ ~BuiltUnder(2, config[1])

\* the position of a call in the processing of one unit
Stage(op) ==
    CASE op = "resolve" -> 1
      [] op = "hash" -> 2
      [] op = "write" -> 3
      [] op = "check" -> 4
      [] op \in {"compile", "skip"} -> 5
      [] op = "prepare" -> 6
      [] op = "which" -> 7
      [] op = "spawn" -> 8
      [] op = "rename" -> 9
      [] OTHER -> 10

\* unit u is done in this run: skipped, or its compile_library has returned
Completed(p, u) ==
    \/ Skipped(p, u)
    \/ /\ Invoked(p, u)
       /\ HappenedWith(p, "spawn", u, TRUE)
       /\ import_type(cwd \o Slash \o rsmanifest[u].key) = "cargo" =>
             HappenedWith(p, "rename", u, TRUE)

\* C13: within one run the units are processed one at a time in manifest
\* order: fingerprinting, check and compilation of a unit are over before
\* any step of the next unit, each unit's steps come in their order, and
\* the hooks are registered last, after every unit.
C13_OneUnitAtATime ==
    \A p \in Procs :
        LET t == trace[p]
        IN  /\ \A i, j \in 1..Len(t) :
                  (i < j /\ t[i].unit >= 1 /\ t[j].unit >= 1) =>
                      /\ t[i].unit <= t[j].unit
                      /\ t[i].unit = t[j].unit => Stage(t[i].op) <= Stage(t[j].op)
                      /\ t[i].unit < t[j].unit =>
                            /\ Happened(p, "hash", t[i].unit)
                            /\ Checks(p, t[i].unit) # {}
                            /\ Completed(p, t[i].unit)
            /\ \A i \in 1..Len(t) :
                  t[i].op = "hooks" =>
                      /\ i = Len(t)
                      /\ \A u \in Units : Completed(p, u)
            /\ hooks[p] <=> Happened(p, "hooks", 0)

\* a run that compiled both units and then registered the hooks
C13_Witness ==
    /\ pc[1] = "done" /\ hooks[1]
    /\ \A u \in Units : Invoked(1, u) /\ Completed(1, u)

\* C14: in every compile_library call the artifact's parent directory is
\* made and an artifact already at file_path is removed before the
\* toolchain is spawned, and from the removal on an artifact is at
\* file_path only if the toolchain exited with status 0 and, for a package,
\* the release output was renamed into place.
C14_PrepareBeforeSpawn ==
    \A p \in Procs :
        LET t == trace[p]
        IN  /\ pc[p] \in {"compile_which", "compile_spawn", "compile_rename"} =>
                  /\ IsDir(fs, Parent(Norm(metadata[p].file_path)))
                  /\ ~exists(fs, metadata[p].file_path)
            /\ \A i \in 1..Len(t) :
                  t[i].op \in {"which", "spawn"} =>
                      \E j \in 1..(i - 1) :
                          t[j].op = "prepare" /\ t[j].unit = t[i].unit /\ t[j].ok
            /\ \A u \in Units :
                  (Happened(p, "prepare", u) /\ ArtifactExists(u)) =>
                      /\ HappenedWith(p, "spawn", u, TRUE)
                      /\ import_type(cwd \o Slash \o rsmanifest[u].key) = "cargo" =>
                            HappenedWith(p, "rename", u, TRUE)

\* a rebuild forced by a configuration change: the first unit's artifact is
\* back after exit status 0, the package's is removed and cargo not yet run
C14_Witness ==
    /\ pc[1] = "compile_spawn" /\ idx[1] = 2
    /\ ReportedStale(1, 0) /\ ReportedFresh(1, 2)
    /\ HappenedWith(1, "spawn", 1, TRUE) /\ ArtifactExists(1)
    /\ IsDir(fs, Parent(Norm(metadata[1].file_path)))
    /\ ~exists(fs, metadata[1].file_path)

\* the order of a depth-first listing: names compared in listing order,
\* directory by directory
RECURSIVE PathLess(_, _)
PathLess(a, b) ==
    IF a = <<>> THEN b # <<>>
    ELSE IF b = <<>> THEN FALSE
    ELSE IF a[1] = b[1] THEN PathLess(Tail(a), Tail(b))
    ELSE IF a[1] = "/" THEN TRUE
    ELSE IF b[1] = "/" THEN FALSE
    ELSE CharRank(a[1]) < CharRank(b[1])

\* the regular files a call is to report: directly inside path, or with
\* recurse at any depth, below no directory of the ignore list
Reported(f, path, ignore, recurse) ==
    {q \in DOMAIN f :
        /\ IsFile(f, q)
        /\ IsUnder(q, path)
        /\ recurse \/ Parent(q) = path
        /\ \A d \in AncestorsAndSelf(Parent(q)) : (d = path \/ IsUnder(d, path)) => d \notin ignore}

RECURSIVE FingerprintsInOrder(_, _)
FingerprintsInOrder(f, files) ==
    IF files = {} THEN <<>>
    ELSE LET first == CHOOSE q \in files : \A r \in files \ {q} : PathLess(q, r)
         IN  <<BunHashString(f[first].data)>> \o FingerprintsInOrder(f, files \ {first})

\* C15: hash_directory with recurse = false returns the fingerprints of the
\* regular files directly inside the directory, in listing order, and of no
\* file below a subdirectory; with recurse = true it returns, in listing
\* order, the fingerprints of the regular files at every depth that are
\* below no directory of the exclusion list.
C15_RecurseFlag ==
    (dirCall.any /\ IsDir(fs, dirCall.path)) =>
        dirCall.result =
            Some(FingerprintsInOrder(fs, Reported(fs, dirCall.path, dirCall.ignore,
                                                  dirCall.recurse)))

\* a call without recurse on pkg/src, which holds a file and a directory
\* with a file: only the file directly inside is reported
C15_Witness ==
    /\ dirCall.any /\ ~dirCall.recurse /\ dirCall.ignore = {}
    /\ dirCall.path = PkgSrc
    /\ IsFile(fs, PkgSource) /\ IsFile(fs, PkgNested)
    /\ dirCall.result = Some(<<BunHashString(fs[PkgSource].data)>>)

\* the cache records on disk: the unit hash records and __rsconfig.hash
Records(f) == {q \in DOMAIN f : IsFile(f, q) /\ endsWith(q, <<".","h","a","s","h">>)}

\* in this step process p returns from a check of the record at q with
\* the result not fresh, having written the record
ReturnsNotFresh(p, q) ==
    /\ Len(trace'[p]) = Len(trace[p]) + 2
    /\ LET e == trace'[p][Len(trace'[p])]
       IN  /\ e.op = "check" /\ ~e.ok
           /\ trace'[p][Len(trace'[p]) - 1].op = "write"
           /\ q = IF e.unit = 0 THEN Norm(config_hash_path) ELSE Norm(metadata[p].hash_path)
           /\ fs'[q].data = e.hash

\* C16: no step of the system deletes a cache record, and a record is
\* created or rewritten only by a check that reports not fresh: a check
\* that reports fresh, compile_library and import_library leave every
\* record as it is.
C16_RecordFrame ==
    [][\A q \in Records(fs) \cup Records(fs') :
          /\ q \in Records(fs) => q \in Records(fs')
          /\ (q \notin Records(fs) \/ fs'[q] # fs[q]) => \E p \in Procs : ReturnsNotFresh(p, q)]_vars

\* a finished run with a unit loaded: one check reported fresh, the other
\* rewrote an existing record and the package was rebuilt and renamed
C16_Witness ==
    /\ pc[1] = "done" /\ dlopens[1] # {}
    /\ ReportedFresh(1, 1)
    /\ \E e \in Checks(1, 2) : ~e.ok /\ ~e.unseen
    /\ HappenedWith(1, "rename", 2, TRUE)
    /\ Norm(UnitMetadata(1).hash_path) \in Records(fs)
    /\ Norm(UnitMetadata(2).hash_path) \in Records(fs)
    /\ Norm(config_hash_path) \in Records(fs)

\* C17: the check-and-write on a record is not atomic.  A build writes a
\* record only if the record did not hold its fingerprint when its check
\* began, and a check reports not fresh for a fingerprint the previous
\* check of the record had already returned with only when that previous
\* check is the concurrent build's, which wrote the record between this
\* build's exists/read and its write.
C17_NotFreshTwiceOnlyByInterleaving ==
    \A q \in Procs :
        /\ pc[q] \in {"hash_write", "config_write"} => before[q] # Some(hash[q])
        /\ \A u \in {0} \cup Units : \A e \in Checks(q, u) :
              (~e.ok /\ e.prev.any /\ e.prev.hash = e.hash) =>
                  \E p \in Procs \ {q} : \E e2 \in Checks(p, u) :
                      ~e2.ok /\ e2.hash = e.hash

\* both builds found the configuration unchanged; for a.rs both reported
\* not fresh with the same fingerprint and both ran the compiler; for the
\* package build 1 reported fresh after build 2 had rewritten the record,
\* and skipped it while build 2 has removed the artifact and cargo is not
\* finished
C17_Witness ==
    /\ ReportedFresh(1, 0) /\ ReportedFresh(2, 0)
    /\ \E e1 \in Checks(1, 1) : \E e2 \in Checks(2, 1) :
          ~e1.ok /\ ~e2.ok /\ e1.hash = e2.hash /\ ~e1.unseen /\ ~e2.unseen
    /\ HappenedWith(1, "spawn", 1, TRUE) /\ HappenedWith(2, "spawn", 1, TRUE)
    /\ ReportedFresh(1, 2) /\ Skipped(1, 2)
    /\ \E e \in Checks(2, 2) : ~e.ok /\ ~e.unseen
    /\ pc[2] \in {"compile_which", "compile_spawn", "compile_rename"} /\ idx[2] = 2
    /\ ~exists(fs, metadata[2].file_path)

====
